---- MODULE Spec2Model ----
(***************************************************************************)
(* Streaming filters of include/filtering/filter.hpp and the multi-stream  *)
(* wrapper of include/filtering/multistream.hpp.                           *)
(*                                                                         *)
(* The sample type T is a template parameter.  It is modelled by exact     *)
(* rational arithmetic: a value is a pair <<n, d>> in lowest terms with    *)
(* d >= 0.  d = 0 holds the results a floating-point T gives for a         *)
(* division by zero: <<1,0>> is +inf, <<-1,0>> is -inf, <<0,0>> is NaN.    *)
(* Rounding of a floating-point T is not modelled.                         *)
(***************************************************************************)
EXTENDS Integers, Sequences, FiniteSets, TLC

\* ------------------------------------------------------------------ bounds
\* Largest number of filter/reset/set_filter_size calls on one object.
MaxOps == 4
\* Largest window length passed to a constructor or to set_filter_size.
MaxSize == 2
\* Largest number of vector samples fed to a MultiStreamFilter.
MaxMultiOps == 2

\* ------------------------------------------------------ arithmetic on T
Abs(n) == IF n < 0 THEN -n ELSE n

Sign(n) == IF n < 0 THEN -1 ELSE IF n = 0 THEN 0 ELSE 1

RECURSIVE GCD(_, _)
GCD(a, b) == IF b = 0 THEN a ELSE GCD(b, a % b)

\* The value n/d of type T, in lowest terms.
Norm(n, d) ==
  IF d = 0 THEN <<Sign(n), 0>>
  ELSE LET g == GCD(Abs(n), Abs(d))
       IN  <<(Sign(d) * n) \div g, Abs(d) \div g>>

\* The integer i converted to T.
R(i) == <<i, 1>>

Zero == R(0)

One == R(1)

NaN == <<0, 0>>

IsNaN(a) == a = NaN

Add(a, b) == Norm(a[1] * b[2] + b[1] * a[2], a[2] * b[2])

Neg(a) == <<-a[1], a[2]>>

Sub(a, b) == Add(a, Neg(b))

Mul(a, b) == Norm(a[1] * b[1], a[2] * b[2])

\* a / b; a zero divisor gives +inf, -inf or NaN as for a floating-point T.
Div(a, b) == Norm(a[1] * b[2], a[2] * b[1])

\* a <= b and a > b; every comparison with NaN is false.
Leq(a, b) == ~IsNaN(a) /\ ~IsNaN(b) /\ a[1] * b[2] <= b[1] * a[2]

Gt(a, b) == ~IsNaN(a) /\ ~IsNaN(b) /\ a[1] * b[2] > b[1] * a[2]

\* Conversion of a finite T to int: truncation toward zero.
Trunc(a) == Sign(a[1]) * (Abs(a[1]) \div a[2])

\* Largest and smallest value of a 32-bit int.
IntMax == 2147483647

IntMin == -IntMax - 1

\* The C++ remainder a % b for b # 0: the sign follows the dividend.  For
\* a < 0 it is computed from -(a + 1), which is an int even for a = IntMin.
CRem(a, b) ==
  IF a >= 0 THEN a % Abs(b)
  ELSE -((((-(a + 1)) % Abs(b)) + 1) % Abs(b))

\* The value of an int after i++.  At IntMax the increment overflows, which
\* is undefined: this is the two's-complement result; a build that traps
\* instead is an outcome of the Filter action.
PostIncrement(i) == IF i = IntMax THEN IntMin ELSE i + 1

RECURSIVE SumSeq(_)
SumSeq(s) == IF s = <<>> THEN Zero ELSE Add(s[1], SumSeq(Tail(s)))

\* ------------------------------------------------------------ input sets
\* Samples fed to filter().
Samples == {R(0), R(1), R(-2)}

\* Constants passed to ExponentialFilter(filter_constant).
ExpConstants == {R(-1), R(0), <<1, 10>>, <<1, 2>>, R(1), <<11, 10>>}

\* RC and dt passed to LowPassFilter(RC, dt) and HighPassFilter(RC, dt).
RCValues == {R(-1), R(0), R(1)}

\* R and C passed to the three-argument constructors.
ResValues == {R(-1), R(1)}

\* Window lengths passed to MovingAverageFilter(filter_size).
CtorSizes == -1 .. MaxSize

\* Window lengths passed to set_filter_size(size).
Sizes == 1 .. MaxSize

\* call_frequency and filter_period of MovingAverageFilter(int, T).
Frequencies == 0 .. MaxSize

Periods == {<<1, 2>>, R(1)}

\* HighPassFilter::_last_data has no initializer: after construction it holds
\* an indeterminate value, any of these.
Indeterminate == {R(0), R(1), R(3)}

\* ------------------------------------------------------------- the objects
\* One record shape for every Filter<T> subclass; a subclass leaves the
\* members it does not have at the values below.
NoFilter ==
  [kind |-> "none", _filter_constant |-> Zero, _filtered_data |-> Zero,
   _last_data |-> Zero, _data |-> <<>>, _filter_size |-> 0,
   _filter_sum |-> Zero, _filter_ind |-> 0]

ExpFamily == {"Exponential", "LowPass", "HighPass"}

\* Members of a just-constructed ExponentialFilter (or subclass `kind`); g is
\* the indeterminate initial _last_data of a HighPassFilter.
NewExponential(kind, c, g) ==
  [NoFilter EXCEPT !.kind = kind, !._filter_constant = c,
                   !._last_data = IF kind = "HighPass" THEN g ELSE Zero]

\* Members of a just-constructed MovingAverageFilter of size >= 0.
NewMovingAverage(size) ==
  [NoFilter EXCEPT !.kind = "MovingAverage", !._filter_size = size,
                   !._data = [i \in 1 .. size |-> Zero]]

\* Mutant of InvalidConstant: the lower bound is tested with < instead of <=.
InvalidConstant_StrictLower(c) == (~IsNaN(c) /\ c[1] < 0) \/ Gt(c, One)

\* The range check of ExponentialFilter's constructor.
InvalidConstant(c) == Leq(c, Zero) \/ Gt(c, One)

\* ExponentialFilter(filter_constant), also reached from the subclasses.
ExponentialFilter_ctor(kind, c, g) ==
  IF InvalidConstant(c)
  THEN [thrown |-> "domain_error", obj |-> NoFilter]
  ELSE [thrown |-> "none", obj |-> NewExponential(kind, c, g)]

\* LowPassFilter(RC, dt) and LowPassFilter(R, C, dt).
LowPassFilter_ctor(RC, dt) ==
  ExponentialFilter_ctor("LowPass", Div(dt, Add(RC, dt)), Zero)

LowPassFilter_ctor3(Res, Cap, dt) == LowPassFilter_ctor(Mul(Res, Cap), dt)

\* HighPassFilter(RC, dt) and HighPassFilter(R, C, dt).
HighPassFilter_ctor(RC, dt, g) ==
  ExponentialFilter_ctor("HighPass", Div(RC, Add(RC, dt)), g)

HighPassFilter_ctor3(Res, Cap, dt, g) == HighPassFilter_ctor(Mul(Res, Cap), dt, g)

\* MovingAverageFilter(filter_size): _data.resize(_filter_size) converts a
\* negative size to a huge size_t and throws std::length_error.
MovingAverageFilter_ctor(filter_size) ==
  IF filter_size < 0
  THEN [thrown |-> "length_error", obj |-> NoFilter]
  ELSE [thrown |-> "none", obj |-> NewMovingAverage(filter_size)]

\* MovingAverageFilter(call_frequency, filter_period): the product of type T
\* is converted to the int parameter.
MovingAverageFilter_ctor2(call_frequency, filter_period) ==
  MovingAverageFilter_ctor(Trunc(Mul(filter_period, R(call_frequency))))

\* Mutant of ExponentialFilter_filter: the two weights are exchanged, as in
\* the recurrence y[k] = a*y[k-1] + (1-a)*x[k].
ExponentialFilter_filter_WeightsSwapped(f, data_in) ==
  LET y == Add(Mul(f._filter_constant, f._filtered_data),
               Mul(Sub(One, f._filter_constant), data_in))
  IN  [obj |-> [f EXCEPT !._filtered_data = y], out |-> y, ind |-> 0]

\* Mutant of HighPassFilter_filter: _last_data is not updated.
HighPassFilter_filter_StaleLast(f, data_in) ==
  LET y == Add(Mul(f._filter_constant, f._filtered_data),
               Mul(f._filter_constant, Sub(data_in, f._last_data)))
  IN  [obj |-> [f EXCEPT !._filtered_data = y], out |-> y, ind |-> 0]

\* Mutant of MovingAverageFilter_filter: the overwritten entry is not
\* subtracted from the running sum.
MovingAverageFilter_filter_NoSubtract(f, data_in) ==
  LET ind == CRem(f._filter_ind, f._filter_size)
      sum == Add(f._filter_sum, data_in)
  IN  [obj |-> [f EXCEPT !._filter_ind = PostIncrement(@), !._filter_sum = sum,
                         !._data[ind + 1] = data_in],
       out |-> Div(sum, R(f._filter_size)), ind |-> ind]

\* -------------------------------------------------------------- filter()
\* Each returns the object after the call, data_out and, for the moving
\* average, the local ind.
ExponentialFilter_filter(f, data_in) ==
  LET y == Add(Mul(f._filter_constant, data_in),
               Mul(Sub(One, f._filter_constant), f._filtered_data))
  IN  [obj |-> [f EXCEPT !._filtered_data = y], out |-> y, ind |-> 0]

HighPassFilter_filter(f, data_in) ==
  LET y == Add(Mul(f._filter_constant, f._filtered_data),
               Mul(f._filter_constant, Sub(data_in, f._last_data)))
  IN  [obj |-> [f EXCEPT !._filtered_data = y, !._last_data = data_in],
       out |-> y, ind |-> 0]

circular_ind(ind, filter_size) == CRem(ind, filter_size)

\* _data is indexed from 0 in the code and from 1 here.
MovingAverageFilter_filter(f, data_in) ==
  LET ind == circular_ind(f._filter_ind, f._filter_size)
      sum == Add(Sub(f._filter_sum, f._data[ind + 1]), data_in)
  IN  [obj |-> [f EXCEPT !._filter_ind = PostIncrement(@), !._filter_sum = sum,
                         !._data[ind + 1] = data_in],
       out |-> Div(sum, R(f._filter_size)), ind |-> ind]

\* Virtual dispatch of Filter<T>::filter.
Filter_filter(f, data_in) ==
  CASE f.kind = "MovingAverage" -> MovingAverageFilter_filter(f, data_in)
    [] f.kind = "HighPass" -> HighPassFilter_filter(f, data_in)
    [] OTHER -> ExponentialFilter_filter(f, data_in)

\* --------------------------------------------------------------- reset()
ExponentialFilter_reset(f) == [f EXCEPT !._filtered_data = Zero]

MovingAverageFilter_reset(f) ==
  [f EXCEPT !._data = [i \in 1 .. Len(f._data) |-> Zero], !._filter_ind = 0]

Filter_reset(f) ==
  IF f.kind = "MovingAverage" THEN MovingAverageFilter_reset(f)
  ELSE ExponentialFilter_reset(f)

\* ----------------------------------------------------- set_filter_size()
ExponentialFilter_set_filter_size(f, size) == f

\* std::vector::resize keeps the first entries and value-initializes new ones.
VectorResize(v, n) == [i \in 1 .. n |-> IF i <= Len(v) THEN v[i] ELSE Zero]

MovingAverageFilter_set_filter_size(f, size) ==
  MovingAverageFilter_reset(
    [f EXCEPT !._filter_size = size, !._data = VectorResize(f._data, size)])

Filter_set_filter_size(f, size) ==
  IF f.kind = "MovingAverage" THEN MovingAverageFilter_set_filter_size(f, size)
  ELSE ExponentialFilter_set_filter_size(f, size)

\* ---------------------------------------------------------------- clone()
\* ExponentialFilter::clone: make_unique<ExponentialFilter<T>>(*this).  The
\* new object is an ExponentialFilter holding copies of _filter_constant and
\* _filtered_data, whatever subclass *this is.
ExponentialFilter_clone(f) ==
  [NoFilter EXCEPT !.kind = "Exponential",
                   !._filter_constant = f._filter_constant,
                   !._filtered_data = f._filtered_data]

\* MovingAverageFilter::clone: make_unique<MovingAverageFilter<T>>(*this); the
\* implicit copy constructor copies each member.
MovingAverageFilter_clone(f) ==
  [NoFilter EXCEPT !.kind = "MovingAverage", !._data = f._data,
                   !._filter_size = f._filter_size,
                   !._filter_sum = f._filter_sum,
                   !._filter_ind = f._filter_ind]

\* Virtual dispatch of Filter<T>::clone.  LowPassFilter and HighPassFilter do
\* not override clone: the call runs ExponentialFilter::clone.
Filter_clone(f) ==
  IF f.kind = "MovingAverage" THEN MovingAverageFilter_clone(f)
  ELSE ExponentialFilter_clone(f)

\* ------------------------------------------------- one filter and a caller
VARIABLES
  status,    \* "none", "live", "thrown" (constructor threw), "crashed"
  exc,       \* the exception a constructor threw, or "none"
  flt,       \* the filter object
  data_out,  \* data_out of the last filter() call
  ind,       \* the local ind of the last MovingAverageFilter::filter call
  args,      \* the constructor called and its arguments
  lastOp,    \* the last call made on the object
  prev,      \* the object as it was before the last call
  inputs,    \* every data_in since construction, oldest first (in SpecWrap
             \* the newest _filter_size of them and those that follow)
  fresh,     \* no reset() or set_filter_size() since construction
  reconf,    \* "reset"/"resize": the last reset or effective resize, or "none"
  ref,       \* a just-constructed filter of flt's configuration, made at the
             \* last reset/resize and fed every data_in since
  ref_out,   \* data_out of ref's last filter() call
  nops,      \* number of calls made on the object in this run
  \* a MultiStreamFilter<T, N> and N separately constructed filters
  ms_status, \* "none" or "live"
  _filters,  \* MultiStreamFilter::_filters
  ms_out,    \* data_out of the last MultiStreamFilter::filter call
  singles,   \* N single-channel filters of the prototype's configuration
  singles_out, \* their last outputs
  ms_in,     \* every data_in array since construction, oldest first
  ms_proto,  \* the prototype's constructor and arguments
  ms_last,   \* the last MultiStreamFilter member function called
  ms_arg,    \* the size passed to the last set_filter_size call
  \* a filter and the object its clone() returned
  cl_status,   \* "none", "live" (constructed) or "cloned"
  cl_orig,     \* the filter clone() is called on
  cl_clone,    \* the object clone() returned
  cl_orig_out, \* data_out of the last filter() call on the original
  cl_clone_out, \* data_out of the last filter() call on the clone
  cl_orig_ops, \* the calls made on the original since clone(), oldest first
  cl_clone_ops, \* the calls made on the clone, oldest first
  cl_before,   \* <<original, clone>> as they were before the last call
  cl_last      \* "orig" or "clone": the object the last call was made on

single_vars ==
  <<status, exc, flt, data_out, ind, args, lastOp, prev, inputs, fresh,
    reconf, ref, ref_out, nops>>

multi_vars ==
  <<ms_status, _filters, ms_out, singles, singles_out, ms_in, ms_proto,
    ms_last, ms_arg>>

clone_vars ==
  <<cl_status, cl_orig, cl_clone, cl_orig_out, cl_clone_out, cl_orig_ops,
    cl_clone_ops, cl_before, cl_last>>

vars == <<single_vars, multi_vars, clone_vars>>

\* Number of channels of the MultiStreamFilter.
N == 2

NoArgs == [ctor |-> "none", a |-> Zero, b |-> Zero, c |-> Zero]

\* No MultiStreamFilter and no clone exist yet.
OthersIdle ==
  /\ ms_status = "none"
  /\ _filters = [i \in 1 .. N |-> NoFilter]
  /\ ms_out = [i \in 1 .. N |-> Zero]
  /\ singles = [i \in 1 .. N |-> NoFilter]
  /\ singles_out = [i \in 1 .. N |-> Zero]
  /\ ms_in = <<>>
  /\ ms_proto = NoArgs
  /\ ms_last = "none"
  /\ ms_arg = 0
  /\ cl_status = "none"
  /\ cl_orig = NoFilter
  /\ cl_clone = NoFilter
  /\ cl_orig_out = Zero
  /\ cl_clone_out = Zero
  /\ cl_orig_ops = <<>>
  /\ cl_clone_ops = <<>>
  /\ cl_before = <<NoFilter, NoFilter>>
  /\ cl_last = "none"

Init ==
  /\ status = "none"
  /\ exc = "none"
  /\ flt = NoFilter
  /\ data_out = Zero
  /\ ind = 0
  /\ args = NoArgs
  /\ lastOp = "none"
  /\ prev = NoFilter
  /\ inputs = <<>>
  /\ fresh = TRUE
  /\ reconf = "none"
  /\ ref = NoFilter
  /\ ref_out = Zero
  /\ nops = 0
  /\ OthersIdle

\* The caller's side of a constructor call with result r.
Constructed(r, a) ==
  /\ status = "none"
  /\ status' = IF r.thrown = "none" THEN "live" ELSE "thrown"
  /\ exc' = r.thrown
  /\ flt' = r.obj
  /\ ref' = r.obj
  /\ args' = a
  /\ lastOp' = "construct"
  /\ UNCHANGED <<data_out, ind, prev, inputs, fresh, reconf, ref_out, nops>>
  /\ UNCHANGED <<multi_vars, clone_vars>>

ConstructExponential(c) ==
  Constructed(ExponentialFilter_ctor("Exponential", c, Zero),
              [NoArgs EXCEPT !.ctor = "ExponentialFilter", !.a = c])

ConstructMovingAverage(size) ==
  Constructed(MovingAverageFilter_ctor(size),
              [NoArgs EXCEPT !.ctor = "MovingAverageFilter", !.a = R(size)])

ConstructMovingAverage2(freq, period) ==
  Constructed(MovingAverageFilter_ctor2(freq, period),
              [NoArgs EXCEPT !.ctor = "MovingAverageFilter2", !.a = R(freq),
                             !.b = period])

ConstructLowPass(RC, dt) ==
  Constructed(LowPassFilter_ctor(RC, dt),
              [NoArgs EXCEPT !.ctor = "LowPassFilter", !.a = RC, !.b = dt])

ConstructLowPass3(Res, Cap, dt) ==
  Constructed(LowPassFilter_ctor3(Res, Cap, dt),
              [ctor |-> "LowPassFilter3", a |-> Res, b |-> Cap, c |-> dt])

ConstructHighPass(RC, dt, g) ==
  Constructed(HighPassFilter_ctor(RC, dt, g),
              [NoArgs EXCEPT !.ctor = "HighPassFilter", !.a = RC, !.b = dt])

ConstructHighPass3(Res, Cap, dt, g) ==
  Constructed(HighPassFilter_ctor3(Res, Cap, dt, g),
              [ctor |-> "HighPassFilter3", a |-> Res, b |-> Cap, c |-> dt])

\* filter(data_in) would compute ind % 0 on f.
DividesByZero(f) == f.kind = "MovingAverage" /\ f._filter_size = 0

\* filter(data_in) would index f._data outside 0 .. _filter_size - 1.
OutOfBounds(f) ==
  /\ f.kind = "MovingAverage"
  /\ f._filter_size # 0
  /\ circular_ind(f._filter_ind, f._filter_size) \notin 0 .. f._filter_size - 1

\* _filter_ind++ in filter(data_in) would overflow on f.
Overflows(f) == f.kind = "MovingAverage" /\ f._filter_ind = IntMax

\* filter(data_in, data_out) on the live object.  A MovingAverageFilter of
\* size 0 divides by zero in circular_ind, and one whose ind is outside _data
\* reads and writes out of bounds: both are undefined and end the run here
\* (status "crashed", with the ind computed).  An overflowing _filter_ind++
\* either wraps or traps.
Filter(data_in) ==
  /\ status = "live"
  /\ nops < MaxOps
  /\ lastOp' = "filter"
  /\ prev' = flt
  /\ nops' = nops + 1
  /\ inputs' = Append(inputs, data_in)
  /\ IF DividesByZero(flt)
     THEN /\ status' = "crashed"
          /\ UNCHANGED <<flt, data_out, ind, ref, ref_out>>
     ELSE IF OutOfBounds(flt)
     THEN /\ status' = "crashed"
          /\ ind' = circular_ind(flt._filter_ind, flt._filter_size)
          /\ UNCHANGED <<flt, data_out, ref, ref_out>>
     ELSE \/ LET r == Filter_filter(flt, data_in)
                 rr == Filter_filter(ref, data_in)
             IN  /\ flt' = r.obj
                 /\ data_out' = r.out
                 /\ ind' = r.ind
                 /\ ref' = rr.obj
                 /\ ref_out' = rr.out
                 /\ UNCHANGED status
          \/ /\ Overflows(flt)
             /\ status' = "crashed"
             /\ ind' = circular_ind(flt._filter_ind, flt._filter_size)
             /\ UNCHANGED <<flt, data_out, ref, ref_out>>
  /\ UNCHANGED <<exc, args, fresh, reconf>>
  /\ UNCHANGED <<multi_vars, clone_vars>>

\* The states a constructor call with f's configuration can leave.
FreshLike(f) ==
  IF f.kind = "MovingAverage" THEN {NewMovingAverage(f._filter_size)}
  ELSE {NewExponential(f.kind, f._filter_constant, g) : g \in Indeterminate}

Reset ==
  /\ status = "live"
  /\ nops < MaxOps
  /\ lastOp' = "reset"
  /\ prev' = flt
  /\ nops' = nops + 1
  /\ flt' = Filter_reset(flt)
  /\ ref' \in FreshLike(flt)
  /\ fresh' = FALSE
  /\ reconf' = "reset"
  /\ UNCHANGED <<status, exc, data_out, ind, args, inputs, ref_out>>
  /\ UNCHANGED <<multi_vars, clone_vars>>

SetFilterSize(size) ==
  /\ status = "live"
  /\ nops < MaxOps
  /\ lastOp' = "set_filter_size"
  /\ prev' = flt
  /\ nops' = nops + 1
  /\ flt' = Filter_set_filter_size(flt, size)
  /\ IF flt.kind = "MovingAverage"
     THEN ref' = NewMovingAverage(size) /\ reconf' = "resize"
     ELSE UNCHANGED <<ref, reconf>>
  /\ fresh' = FALSE
  /\ UNCHANGED <<status, exc, data_out, ind, args, inputs, ref_out>>
  /\ UNCHANGED <<multi_vars, clone_vars>>

Next ==
  \/ \E c \in ExpConstants : ConstructExponential(c)
  \/ \E size \in CtorSizes : ConstructMovingAverage(size)
  \/ \E freq \in Frequencies, period \in Periods :
       ConstructMovingAverage2(freq, period)
  \/ \E RC \in RCValues, dt \in RCValues : ConstructLowPass(RC, dt)
  \/ \E Res \in ResValues, Cap \in ResValues, dt \in RCValues :
       ConstructLowPass3(Res, Cap, dt)
  \/ \E RC \in RCValues, dt \in RCValues, g \in Indeterminate :
       ConstructHighPass(RC, dt, g)
  \/ \E Res \in ResValues, Cap \in ResValues, dt \in RCValues,
        g \in Indeterminate : ConstructHighPass3(Res, Cap, dt, g)
  \/ \E x \in Samples : Filter(x)
  \/ Reset
  \/ \E size \in Sizes : SetFilterSize(size)

Spec == Init /\ [][Next]_vars

\* ------------------------------------ a filter near the end of the int range
\* _filter_ind starts at most this far below IntMax.
WrapLead == 1

\* The entries of the window d in the order they arrived, given that the next
\* call writes slot i0 % Len(d).
Chronological(d, i0) ==
  [j \in 1 .. Len(d) |-> d[((CRem(i0, Len(d)) + j - 1) % Len(d)) + 1]]

\* A MovingAverageFilter of size 1 .. MaxSize after i0 filter calls and no
\* reset, the newest calls having left the window d: the state reached from
\* construction by feeding i0 samples that end with d in arrival order.
InitWrap ==
  \E size \in Sizes, d \in [1 .. MaxSize -> Samples],
     i0 \in {IntMax - lead : lead \in 0 .. WrapLead} :
    LET w == SubSeq(d, 1, size)
        f == [NewMovingAverage(size) EXCEPT !._data = w,
                                            !._filter_sum = SumSeq(w),
                                            !._filter_ind = i0]
    IN  /\ status = "live"
        /\ exc = "none"
        /\ flt = f
        /\ data_out = Div(SumSeq(w), R(size))
        /\ ind = circular_ind(i0 - 1, size)
        /\ args = [NoArgs EXCEPT !.ctor = "MovingAverageFilter", !.a = R(size)]
        /\ lastOp = "filter"
        /\ prev = [f EXCEPT !._filter_ind = i0 - 1]
        /\ inputs = Chronological(w, i0)
        /\ fresh = TRUE
        /\ reconf = "none"
        /\ ref = f
        /\ ref_out = Div(SumSeq(w), R(size))
        /\ nops = 0
        /\ OthersIdle

NextWrap ==
  \/ \E x \in Samples : Filter(x)
  \/ Reset
  \/ \E size \in Sizes : SetFilterSize(size)

SpecWrap == InitWrap /\ [][NextWrap]_vars

\* ------------------------------------------------------ MultiStreamFilter
\* MultiStreamFilter(filter): every element of _filters is a clone of filter.
MultiStreamFilter_ctor(filter) == [i \in 1 .. N |-> Filter_clone(filter)]

\* The loop of MultiStreamFilter::filter from channel ii on (ii counts from 1
\* here): each pass calls _filters[ii]->filter(data_in[ii], data_out[ii]).
RECURSIVE MultiStreamFilter_filter_from(_, _, _, _)
MultiStreamFilter_filter_from(fs, din, dout, ii) ==
  IF ii > N THEN [filters |-> fs, out |-> dout]
  ELSE LET r == Filter_filter(fs[ii], din[ii])
       IN  MultiStreamFilter_filter_from([fs EXCEPT ![ii] = r.obj], din,
                                         [dout EXCEPT ![ii] = r.out], ii + 1)

MultiStreamFilter_filter(fs, din, dout) ==
  MultiStreamFilter_filter_from(fs, din, dout, 1)

\* MultiStreamFilter::reset: _filter->reset() on every element of _filters.
MultiStreamFilter_reset(fs) == [i \in 1 .. N |-> Filter_reset(fs[i])]

\* The member functions Filter<T> declares.
FilterMembers == {"filter", "reset", "set_filter_size", "clone"}

\* MultiStreamFilter::set_filter_size: _filter->set_size(size) on every
\* element of _filters.  Filter<T> declares no set_size, so the function body
\* is ill-formed once instantiated and no channel is resized.
MultiStreamFilter_set_filter_size(fs, size) ==
  [well_formed |-> "set_size" \in FilterMembers, filters |-> fs]

\* The caller builds a MultiStreamFilter from the prototype p.obj and, beside
\* it, the N filters s[1] .. s[N] from the same constructor arguments.
MultiConstructed(p, s, a) ==
  /\ ms_status = "none"
  /\ p.thrown = "none"
  /\ ms_status' = "live"
  /\ _filters' = MultiStreamFilter_ctor(p.obj)
  /\ singles' = [i \in 1 .. N |-> s[i].obj]
  /\ ms_proto' = a
  /\ ms_last' = "construct"
  /\ UNCHANGED <<ms_out, singles_out, ms_in, ms_arg>>
  /\ UNCHANGED <<single_vars, clone_vars>>

MultiConstructExponential(c) ==
  LET p == ExponentialFilter_ctor("Exponential", c, Zero)
  IN  MultiConstructed(p, [i \in 1 .. N |-> p],
                       [NoArgs EXCEPT !.ctor = "ExponentialFilter", !.a = c])

MultiConstructMovingAverage(size) ==
  LET p == MovingAverageFilter_ctor(size)
  IN  MultiConstructed(p, [i \in 1 .. N |-> p],
                       [NoArgs EXCEPT !.ctor = "MovingAverageFilter",
                                      !.a = R(size)])

MultiConstructLowPass(RC, dt) ==
  LET p == LowPassFilter_ctor(RC, dt)
  IN  MultiConstructed(p, [i \in 1 .. N |-> p],
                       [NoArgs EXCEPT !.ctor = "LowPassFilter", !.a = RC,
                                      !.b = dt])

\* g is the indeterminate _last_data of the prototype, gs[i] that of the
\* i-th separately constructed filter.
MultiConstructHighPass(RC, dt, g, gs) ==
  MultiConstructed(HighPassFilter_ctor(RC, dt, g),
                   [i \in 1 .. N |-> HighPassFilter_ctor(RC, dt, gs[i])],
                   [NoArgs EXCEPT !.ctor = "HighPassFilter", !.a = RC,
                                  !.b = dt])

\* MultiStreamFilter::filter(data_in, data_out), and filter(data_in[i], .) on
\* the i-th separate filter.  Filters of size 0 stop the process.
MultiFilter(din) ==
  /\ ms_status = "live"
  /\ Len(ms_in) < MaxMultiOps
  /\ ms_in' = Append(ms_in, din)
  /\ ms_last' = "filter"
  /\ IF _filters[1].kind = "MovingAverage" /\ _filters[1]._filter_size = 0
     THEN /\ ms_status' = "crashed"
          /\ UNCHANGED <<_filters, ms_out, singles, singles_out>>
     ELSE LET r == MultiStreamFilter_filter(_filters, din, ms_out)
          IN  /\ _filters' = r.filters
              /\ ms_out' = r.out
              /\ singles' = [i \in 1 .. N |-> Filter_filter(singles[i], din[i]).obj]
              /\ singles_out' =
                   [i \in 1 .. N |-> Filter_filter(singles[i], din[i]).out]
              /\ UNCHANGED ms_status
  /\ UNCHANGED <<ms_proto, ms_arg>>
  /\ UNCHANGED <<single_vars, clone_vars>>

\* MultiStreamFilter::reset(); the caller resets the separate filters too.
MultiReset ==
  /\ ms_status = "live"
  /\ _filters' = MultiStreamFilter_reset(_filters)
  /\ singles' = [i \in 1 .. N |-> Filter_reset(singles[i])]
  /\ ms_last' = "reset"
  /\ UNCHANGED <<ms_status, ms_out, singles_out, ms_in, ms_proto, ms_arg>>
  /\ UNCHANGED <<single_vars, clone_vars>>

\* MultiStreamFilter::set_filter_size(size).
MultiSetFilterSize(size) ==
  /\ ms_status = "live"
  /\ LET r == MultiStreamFilter_set_filter_size(_filters, size)
     IN  /\ ms_status' = IF r.well_formed THEN "live" ELSE "ill_formed"
         /\ _filters' = r.filters
  /\ ms_last' = "set_filter_size"
  /\ ms_arg' = size
  /\ UNCHANGED <<ms_out, singles, singles_out, ms_in, ms_proto>>
  /\ UNCHANGED <<single_vars, clone_vars>>

NextMulti ==
  \/ \E c \in ExpConstants : MultiConstructExponential(c)
  \/ \E size \in CtorSizes : MultiConstructMovingAverage(size)
  \/ \E RC \in RCValues, dt \in RCValues : MultiConstructLowPass(RC, dt)
  \/ \E RC \in RCValues, dt \in RCValues, g \in Indeterminate,
        gs \in [1 .. N -> Indeterminate] : MultiConstructHighPass(RC, dt, g, gs)
  \/ \E din \in [1 .. N -> Samples] : MultiFilter(din)
  \/ MultiReset
  \/ \E size \in Sizes : MultiSetFilterSize(size)

SpecMulti == Init /\ [][NextMulti]_vars

\* ------------------------------------------------- a filter and its clone
\* Largest number of calls made on the original before clone().
MaxPreCloneOps == 1
\* Largest number of calls made on the original and its clone together
\* after clone().
MaxCloneOps == 3

\* The calls a caller makes on a filter.
Calls ==
  {<<"filter", x>> : x \in Samples} \cup {<<"reset">>}
    \cup {<<"set_filter_size", R(n)>> : n \in Sizes}

\* The object f after the call op, and data_out (old is the caller's variable
\* before the call).
Call(f, op, old) ==
  CASE op[1] = "filter" ->
         LET r == Filter_filter(f, op[2]) IN [obj |-> r.obj, out |-> r.out]
    [] op[1] = "reset" -> [obj |-> Filter_reset(f), out |-> old]
    [] OTHER -> [obj |-> Filter_set_filter_size(f, op[2][1]), out |-> old]

\* The caller constructs the original; p is the constructor's result.
CloneConstructed(p) ==
  /\ cl_status = "none"
  /\ p.thrown = "none"
  /\ cl_status' = "live"
  /\ cl_orig' = p.obj
  /\ UNCHANGED <<cl_clone, cl_orig_out, cl_clone_out, cl_orig_ops,
                 cl_clone_ops, cl_before, cl_last>>
  /\ UNCHANGED <<single_vars, multi_vars>>

CloneConstructExponential(c) ==
  CloneConstructed(ExponentialFilter_ctor("Exponential", c, Zero))

CloneConstructMovingAverage(size) ==
  CloneConstructed(MovingAverageFilter_ctor(size))

CloneConstructLowPass(RC, dt) == CloneConstructed(LowPassFilter_ctor(RC, dt))

CloneConstructHighPass(RC, dt, g) ==
  CloneConstructed(HighPassFilter_ctor(RC, dt, g))

\* filter, reset or set_filter_size on the original.
OrigCall(op) ==
  /\ cl_status \in {"live", "cloned"}
  /\ IF cl_status = "live" THEN Len(cl_orig_ops) < MaxPreCloneOps
     ELSE Len(cl_orig_ops) + Len(cl_clone_ops) < MaxCloneOps
  /\ LET r == Call(cl_orig, op, cl_orig_out)
     IN  cl_orig' = r.obj /\ cl_orig_out' = r.out
  /\ cl_orig_ops' = Append(cl_orig_ops, op)
  /\ cl_before' = <<cl_orig, cl_clone>>
  /\ cl_last' = "orig"
  /\ UNCHANGED <<cl_status, cl_clone, cl_clone_out, cl_clone_ops>>
  /\ UNCHANGED <<single_vars, multi_vars>>

\* clone() on the original; the calls recorded so far are forgotten.
Clone ==
  /\ cl_status = "live"
  /\ cl_status' = "cloned"
  /\ cl_clone' = Filter_clone(cl_orig)
  /\ cl_orig_ops' = <<>>
  /\ cl_before' = <<cl_orig, cl_clone>>
  /\ cl_last' = "clone()"
  /\ UNCHANGED <<cl_orig, cl_orig_out, cl_clone_out, cl_clone_ops>>
  /\ UNCHANGED <<single_vars, multi_vars>>

\* filter, reset or set_filter_size on the clone.
CloneCall(op) ==
  /\ cl_status = "cloned"
  /\ Len(cl_orig_ops) + Len(cl_clone_ops) < MaxCloneOps
  /\ LET r == Call(cl_clone, op, cl_clone_out)
     IN  cl_clone' = r.obj /\ cl_clone_out' = r.out
  /\ cl_clone_ops' = Append(cl_clone_ops, op)
  /\ cl_before' = <<cl_orig, cl_clone>>
  /\ cl_last' = "clone"
  /\ UNCHANGED <<cl_status, cl_orig, cl_orig_out, cl_orig_ops>>
  /\ UNCHANGED <<single_vars, multi_vars>>

NextClone ==
  \/ \E c \in ExpConstants : CloneConstructExponential(c)
  \/ \E size \in Sizes : CloneConstructMovingAverage(size)
  \/ \E RC \in RCValues, dt \in RCValues : CloneConstructLowPass(RC, dt)
  \/ \E RC \in RCValues, dt \in RCValues, g \in Indeterminate :
       CloneConstructHighPass(RC, dt, g)
  \/ \E op \in Calls : OrigCall(op)
  \/ Clone
  \/ \E op \in Calls : CloneCall(op)

SpecClone == Init /\ [][NextClone]_vars

\* ================================================================= claims
Live(kind) == status = "live" /\ flt.kind = kind

Min(a, b) == IF a < b THEN a ELSE b

\* The newest n entries of the sequence s.
LastN(s, n) == SubSeq(s, Len(s) - n + 1, Len(s))

\* C1: in every state of a MovingAverageFilter reached by filter, reset and
\* set_filter_size calls, _filter_sum is the sum of the entries of _data.
C1_SumEqualsWindow ==
  Live("MovingAverage") => flt._filter_sum = SumSeq(flt._data)

\* C2: for every filter variant, reset() leaves the object in a state a
\* constructor call with the same configuration leaves, and every later
\* output equals that of a just-constructed filter fed the same inputs.
C2_ResetRestoresConstructedState ==
  /\ (status = "live" /\ lastOp = "reset") => flt \in FreshLike(prev)
  /\ (status = "live" /\ lastOp = "filter" /\ reconf = "reset")
       => data_out = ref_out

\* C3: set_filter_size(n) on a MovingAverageFilter leaves the state of a
\* just-constructed filter of size n, with the same outputs afterwards; on
\* the exponential family it changes nothing.
C3_ResizeIsResetWithNewSize ==
  /\ (Live("MovingAverage") /\ lastOp = "set_filter_size") => flt = ref
  /\ (Live("MovingAverage") /\ lastOp = "filter" /\ reconf = "resize")
       => data_out = ref_out
  /\ (status = "live" /\ flt.kind \in ExpFamily /\ lastOp = "set_filter_size")
       => flt = prev

C7_WindowLengthValidated ==
  /\ (args.ctor = "MovingAverageFilter" /\ args.a[1] <= 0) => status = "thrown"
  /\ (args.ctor = "MovingAverageFilter2" /\ Leq(Mul(args.a, args.b), Zero))
       => status = "thrown"
  /\ Live("MovingAverage") => flt._filter_size > 0

\* RC and dt of the LowPassFilter/HighPassFilter constructor call in args.
ArgRC == IF args.ctor \in {"LowPassFilter3", "HighPassFilter3"}
         THEN Mul(args.a, args.b) ELSE args.a

ArgDt == IF args.ctor \in {"LowPassFilter3", "HighPassFilter3"}
         THEN args.c ELSE args.b

RCCtors ==
  {"LowPassFilter", "LowPassFilter3", "HighPassFilter", "HighPassFilter3"}

\* C8: a LowPassFilter or HighPassFilter constructor given RC <= 0 or
\* dt <= 0 throws std::domain_error.
C8_NonPositiveRCRejected ==
  (args.ctor \in RCCtors /\ (Leq(ArgRC, Zero) \/ Leq(ArgDt, Zero)))
    => status = "thrown" /\ exc = "domain_error"

\* The case of C9: a HighPassFilter built with RC > 0 and dt > 0 has been
\* fed the same value on every call since construction, at least twice.
ConstantInputCase ==
  /\ Live("HighPass") /\ fresh /\ lastOp = "filter"
  /\ Gt(ArgRC, Zero) /\ Gt(ArgDt, Zero)
  /\ Len(inputs) >= 2
  /\ \A i \in 1 .. Len(inputs) : inputs[i] = inputs[1]

\* C9 as stated: under a constant input every output after the first is 0.
C9_ZeroAfterFirst == ConstantInputCase => data_out = Zero

\* C9 amended: under a constant input every output after the first is the
\* filter constant times the previous output.
C9_GeometricDecay ==
  ConstantInputCase => data_out = Mul(flt._filter_constant, prev._filtered_data)

\* C9 witness: a nonzero output on the second call of a constant input.
C9_Witness == ConstantInputCase /\ data_out # Zero

\* C10: after every MultiStreamFilter::filter call, channel i's output is the
\* output of a separately constructed filter of the prototype's
\* configuration fed channel i's inputs alone.
C10_ChannelsMatchSingleFilters ==
  (ms_status = "live" /\ ms_in # <<>>) => ms_out = singles_out

\* The class whose filter, reset and set_filter_size run for an object of
\* class kind (LowPassFilter overrides none of ExponentialFilter's).
Behaviour(kind) == IF kind = "LowPass" THEN "Exponential" ELSE kind

\* a and b behave as the same class and hold the same member values.
SameFilter(a, b) ==
  [a EXCEPT !.kind = Behaviour(a.kind)] = [b EXCEPT !.kind = Behaviour(b.kind)]

\* C11: clone() returns an object with the original's configuration and
\* state; after the same calls on each, made in any interleaving, the two
\* agree in state and in the last output; and a call on one leaves the other
\* as it was.
C11_CloneEqualAndIndependent ==
  cl_status = "cloned" =>
    /\ cl_orig_ops = cl_clone_ops =>
         /\ SameFilter(cl_orig, cl_clone)
         /\ (cl_orig_ops # <<>> /\ cl_orig_ops[Len(cl_orig_ops)][1] = "filter")
              => cl_orig_out = cl_clone_out
    /\ cl_last = "orig" => cl_clone = cl_before[2]
    /\ cl_last = "clone" => cl_orig = cl_before[1]

\* C12: MultiStreamFilter::reset resets every channel filter and
\* MultiStreamFilter::set_filter_size resizes every channel filter to the
\* size given; after either call all channels are identical in configuration
\* and state, in the state a constructor leaves.
C12_AllChannelsResetAndResized ==
  /\ ms_last = "reset" =>
       \A i \in 1 .. N :
         _filters[i] = _filters[1] /\ _filters[i] \in FreshLike(_filters[i])
  /\ ms_last = "set_filter_size" =>
       /\ ms_status = "live"
       /\ \A i \in 1 .. N :
            /\ _filters[i] = _filters[1]
            /\ _filters[i].kind = "MovingAverage"
                 => _filters[i] = NewMovingAverage(ms_arg)

\* C13: on every MovingAverageFilter::filter call, whatever the number of
\* earlier calls and whatever resets and resizes came between, the index
\* computed satisfies 0 <= ind < _filter_size.
C13_IndexInBounds ==
  (flt.kind = "MovingAverage" /\ lastOp = "filter" /\ flt._filter_size > 0)
    => 0 <= ind /\ ind < flt._filter_size

====
